---- MODULE Spec2Model ----
(***************************************************************************)
(* A model of query/stage/base_stage.go (LinDB): baseStage.Execute drives  *)
(* a plan-node tree depth first, either inline on the calling goroutine or *)
(* as one task of a concurrent.Pool, and reports through two continuations.*)
(* The pool and its Task are not part of the sources at hand; they are     *)
(* modelled from their contract (Submit / Task = action + error handler).  *)
(***************************************************************************)
EXTENDS Integers, Sequences, FiniteSets, TLC

\* ------------------------------------------------------------------ bounds
MaxNodes == 4
MaxNil == 1
\* The largest tree handed to a stage that is executed again and again.
MaxSeqNodes == 2
\* The largest tree of a stage of the pipeline.
MaxPipeNodes == 2
\* How many flush events the index database is notified of.
MaxFlushEvents == 3
\* The largest series limit a Limits value holds.
MaxLimit == 2

\* ------------------------------------------------------- values and inputs
\* Go's nil for a context or a pool, for a PlanNode reference, and for an error.
Nil == "nil"
NilNode == 0
NoErr == [kind |-> "nil", src |-> 0]

Caller == "caller"
Worker == "worker"

\* The stage's type tag: an opaque enumerated value.
StageTypes == {"T0", "T1"}

\* What one node.Execute() does: returns nil, returns an error, or panics.
Outcomes == {"ok", "err", "panic"}

\* Which of the two caller-supplied continuations panics when invoked.
HandlerFaults == {"none", "completeHandle", "errHandle"}

\* The error a node returns (one value per node, so that it can be told apart).
Err(n) == [kind |-> "node", src |-> n]
\* The error the pool hands to a task's error handler after recovering a panic:
\* of node n, or (n = 0) of a continuation.
Fault(n) == [kind |-> "panic", src |-> n]
\* The error the pool hands to a task's error handler when it rejects a task.
Cancelled == [kind |-> "cancelled", src |-> 0]

\* parent[i] < i for every node but the root: every finite ordered tree of n nodes.
ParentFns(n) ==
    {p \in [1..n -> 0..(n - 1)] : p[1] = 0 /\ \A i \in 2..n : p[i] >= 1 /\ p[i] < i}

Leaves(n, p) == {i \in 1..n : \A j \in 1..n : p[j] # i}

\* The slots that hold a nil reference: leaves only, the root only when it is alone.
NilSets(n, p) ==
    {z \in SUBSET Leaves(n, p) : Cardinality(z) <= MaxNil /\ (1 \in z => n = 1)}

TreesUpTo(k) ==
    UNION {UNION {{[size |-> n, parent |-> p, nil |-> z] : z \in NilSets(n, p)} :
                     p \in ParentFns(n)} : n \in 1..k}

Trees == TreesUpTo(MaxNodes)

\* The node objects of a tree (the slots that are not nil).
Nodes(t) == (1..t.size) \ t.nil

Ref(t, i) == IF i \in t.nil THEN NilNode ELSE i

\* The node handed to Execute: the root, or nil.
Root(t) == Ref(t, 1)

RECURSIVE KidsFrom(_, _, _)
KidsFrom(t, n, i) ==
    IF i > t.size THEN <<>>
    ELSE IF t.parent[i] = n THEN <<Ref(t, i)>> \o KidsFrom(t, n, i + 1)
    ELSE KidsFrom(t, n, i + 1)

\* node.Children(): the children in declaration order, nil entries included.
Children(t, n) == KidsFrom(t, n, 2)

\* ------------------------------------------------------------------- state
VARIABLES
    stage,      \* the baseStage: [stageType, ctx, execPool]
    tree,       \* the plan tree the caller holds
    outcome,    \* what each node's Execute() does when it is invoked
    faulty,     \* which continuation panics when invoked
    pc,         \* where the calling goroutine and the pool worker are
    queue,      \* the tasks submitted to the pool and not yet taken
    running,    \* the task the pool worker is executing
    stack,      \* the for-loops of the running execute() calls, innermost last
    ret,        \* the error execute(node) returned to execFn
    panicked,   \* the panic value unwinding the running goroutine
    trace,      \* every call that has been made, in order
    lastCall,   \* the last call of Type(), Complete() or NextStages() and its result
    previous,   \* how the Execute call before the current one ended
    stages,     \* the pipeline's stages: what each is given and what follows it
    exec,       \* where each stage of the pipeline is in its Execute call
    worklist,   \* the pipeline's pending stages
    tasks,      \* the tasks the pipeline's stages submitted to the shared pool
    status,     \* whether the pipeline is running, has succeeded or has failed
    surfaced,   \* the errors the pipeline handed to its caller
    plog,       \* every call made in the pipeline, in order
    flush,      \* the flush events the index database was notified of
    limits,     \* a Limits value
    lookup      \* the last GetSeriesLimit call and its result

\* What one Execute call works on, and what the stage's other methods are seen by.
execVars ==
    <<stage, tree, outcome, faulty, pc, queue, running, stack, ret, panicked, trace>>
methodVars == <<lastCall, previous>>
\* What the models of the other components keep.
pipeVars == <<stages, exec, worklist, tasks, status, surfaced, plog>>
flushVars == <<flush>>
limitVars == <<limits, lookup>>
beyondStage == <<pipeVars, flushVars, limitVars>>
others == <<methodVars, beyondStage>>

vars == <<execVars, others>>

Threads == {Caller, Worker}

\* One observed call: a node's Execute ("node"), completeHandle ("complete"),
\* errHandle ("error"), Pool.Submit ("submit"), the return of Stage.Execute
\* ("return"); th is the goroutine it happened on, by the code that made it.
Event(ev, th, by, n, e) == [ev |-> ev, th |-> th, by |-> by, node |-> n, err |-> e]

NoTask == [action |-> Nil, handle |-> Nil]

\* ------------------------------------------------------- baseStage.execute
\* One for-loop over children (or the single call execute(node) of execFn):
\* kids is the list, idx the number of entries already visited.
Frame(kids) == [kids |-> kids, idx |-> 0]

\* Unwind gone wrong: a nil entry ends the loop it is in, so the siblings declared
\* after it are never visited.
RECURSIVE UnwindNilEndsLoop(_)
UnwindNilEndsLoop(s) ==
    IF s = <<>> THEN <<>>
    ELSE LET top == s[Len(s)] IN
         IF top.idx >= Len(top.kids) \/ top.kids[top.idx + 1] = NilNode
         THEN UnwindNilEndsLoop(SubSeq(s, 1, Len(s) - 1))
         ELSE s

\* Everything execute() does without calling a node: a nil entry returns nil at
\* once, an exhausted loop returns nil to the loop that called it.
RECURSIVE Unwind(_)
Unwind(s) ==
    IF s = <<>> THEN <<>>
    ELSE LET top == s[Len(s)] IN
         IF top.idx >= Len(top.kids) THEN Unwind(SubSeq(s, 1, Len(s) - 1))
         ELSE IF top.kids[top.idx + 1] = NilNode
              THEN Unwind([s EXCEPT ![Len(s)].idx = @ + 1])
              ELSE s

\* execute(node) is entered.
Enter(node) == Unwind(<<Frame(<<node>>)>>)

\* The node whose Execute() runs next.
Pending(s) == s[Len(s)].kids[s[Len(s)].idx + 1]

\* Descend gone wrong: the children are queued behind the loops still open, so
\* they are visited after the remaining siblings.
DescendSiblingsFirst(s, t, n) ==
    Unwind(<<Frame(Children(t, n))>> \o [s EXCEPT ![Len(s)].idx = @ + 1])

\* node n returned nil: its children are visited, then the loop goes on.
Descend(s, t, n) ==
    Unwind(Append([s EXCEPT ![Len(s)].idx = @ + 1], Frame(Children(t, n))))

\* RunsInline gone wrong: inline only when both the pool and the context are missing.
RunsInlineBothMissing(st) == st.execPool = Nil /\ st.ctx = Nil

\* RunsInline gone wrong: the pool is never used.
RunsInlineAlways(st) == TRUE

\* The stage runs execFn itself when it has no pool or no context.
RunsInline(st) == st.execPool = Nil \/ st.ctx = Nil

\* NewTask gone wrong: the task is built without an error handler.
NewTaskNoHandler == [action |-> "execFn", handle |-> Nil]

\* concurrent.NewTask(func() { execFn() }, errHandle)
NewTask == [action |-> "execFn", handle |-> "errHandle"]

\* Forwarded gone wrong: the stage wraps the node's error in one of its own.
ForwardedWrapped(e) == [kind |-> "wrapped", src |-> e.src]

\* What execFn passes to errHandle for the error execute(node) returned.
Forwarded(e) == e

\* Lines 43-47: which continuation execFn invokes for what execute() returned.
Continuation(e) == IF e # NoErr THEN "errHandle" ELSE "completeHandle"

\* Visit gone wrong: a node's error is noted but the loop over its siblings goes on.
VisitKeepsGoing(s, t, n, o) ==
    IF o = "err" THEN [stack |-> Unwind([s EXCEPT ![Len(s)].idx = @ + 1]), ret |-> Err(n)]
    ELSE [stack |-> Descend(s, t, n), ret |-> NoErr]

\* Lines 65-76 once node n's Execute() has returned o ("ok" or "err"): an error
\* is returned through every enclosing loop, nil sends the walk into the children.
Visit(s, t, n, o) ==
    IF o = "err" THEN [stack |-> <<>>, ret |-> Err(n)]
    ELSE [stack |-> Descend(s, t, n), ret |-> NoErr]

\* -------------------------------------------------------------------- Init
\* Nothing has been called yet: Execute has its arguments, the pool is empty.
Created ==
    /\ pc = [th \in Threads |-> IF th = Caller THEN "created" ELSE "idle"]
    /\ queue = <<>>
    /\ running = NoTask
    /\ stack = <<>>
    /\ ret = NoErr
    /\ panicked = NoErr
    /\ trace = <<>>

NoCall == [op |-> Nil, result |-> Nil, seq |-> 0]

\* No method but Execute is ever called, and Execute once.
MethodsIdle == lastCall = NoCall /\ previous = <<"new">>

\* There is no stage, no pipeline, no index database, no Limits.
StageIdle ==
    /\ stage = [stageType |-> "T0", ctx |-> Nil, execPool |-> Nil]
    /\ tree = [size |-> 1, parent |-> <<0>>, nil |-> {1}]
    /\ outcome = <<"ok">>
    /\ faulty = "none"
    /\ Created
    /\ MethodsIdle
PipelineIdle ==
    /\ stages = <<>>
    /\ exec = <<>>
    /\ worklist = <<>>
    /\ tasks = <<>>
    /\ status = Nil
    /\ surfaced = <<>>
    /\ plog = <<>>
FlushIdle == flush = <<>>
NoLimits == [MaxSeriesPerMetric |-> 0, Metrics |-> <<>>]
NoLookup == [namespace |-> <<>>, name |-> <<>>, result |-> 0]
LimitsIdle == limits = NoLimits /\ lookup = NoLookup

\* One Execute call on a new stage. Execute never reads the type tag, so one tag
\* stands for all of them here.
Init ==
    /\ stage \in [stageType : {"T0"}, ctx : {Nil, "live", "cancelled"}, execPool : {Nil, "pool"}]
    /\ tree \in Trees
    /\ outcome \in {o \in [1..tree.size -> Outcomes] : \A i \in tree.nil : o[i] = "ok"}
    /\ faulty \in HandlerFaults
    /\ Created
    /\ MethodsIdle
    /\ PipelineIdle /\ FlushIdle /\ LimitsIdle

\* ------------------------------------------------------------ Pool.Submit
\* The pool takes the task: a worker will run it.
SubmitAccept(task) ==
    /\ queue' = Append(queue, task)
    /\ trace' = Append(trace, Event("submit", Caller, "stage", NilNode, NoErr))
    /\ pc' = [pc EXCEPT ![Caller] = "submitted"]
    /\ UNCHANGED panicked

\* The context is already cancelled and the pool rejects the task at once: the
\* task's error handler gets the cancellation error, the action never runs.
SubmitReject(task) ==
    /\ stage.ctx = "cancelled"
    /\ queue' = queue
    /\ trace' = trace \o <<Event("submit", Caller, "stage", NilNode, NoErr)>>
                      \o (IF task.handle = Nil THEN <<>>
                          ELSE <<Event("error", Caller, "pool", NilNode, Cancelled)>>)
    /\ IF task.handle # Nil /\ faulty = "errHandle"
       THEN pc' = [pc EXCEPT ![Caller] = "panic"] /\ panicked' = Fault(0)
       ELSE pc' = [pc EXCEPT ![Caller] = "submitted"] /\ UNCHANGED panicked

\* Execute gone wrong: the run is handed to the pool as two tasks.
ExecuteSubmitsTwice ==
    /\ pc[Caller] = "created"
    /\ \/ /\ RunsInline(stage)
          /\ pc' = [pc EXCEPT ![Caller] = "execFn"]
          /\ stack' = Enter(Root(tree))
          /\ UNCHANGED <<queue, trace, panicked>>
       \/ /\ ~RunsInline(stage)
          /\ queue' = queue \o <<NewTask, NewTask>>
          /\ trace' = trace \o <<Event("submit", Caller, "stage", NilNode, NoErr),
                                  Event("submit", Caller, "stage", NilNode, NoErr)>>
          /\ pc' = [pc EXCEPT ![Caller] = "submitted"]
          /\ UNCHANGED <<stack, panicked>>
    /\ UNCHANGED <<stage, tree, outcome, faulty, running, ret>>
    /\ UNCHANGED others

\* ------------------------------------------------------- baseStage.Execute
\* Stage.Execute(node, completeHandle, errHandle) is called: execFn starts on the
\* calling goroutine, or is handed to the pool as one task.
Execute ==
    /\ pc[Caller] = "created"
    /\ \/ /\ RunsInline(stage)
          /\ pc' = [pc EXCEPT ![Caller] = "execFn"]
          /\ stack' = Enter(Root(tree))
          /\ UNCHANGED <<queue, trace, panicked>>
       \/ /\ ~RunsInline(stage)
          /\ SubmitAccept(NewTask)
          /\ UNCHANGED stack
       \/ /\ ~RunsInline(stage)
          /\ SubmitReject(NewTask)
          /\ UNCHANGED stack
    /\ UNCHANGED <<stage, tree, outcome, faulty, running, ret>>
    /\ UNCHANGED others

\* execute() reaches the next node and calls its Execute().
NodeStep(th) ==
    /\ pc[th] = "execFn"
    /\ stack # <<>>
    /\ LET n == Pending(stack) IN
       /\ trace' = Append(trace, Event("node", th, "stage", n, NoErr))
       /\ IF outcome[n] = "panic"
          THEN /\ stack' = <<>>
               /\ panicked' = Fault(n)
               /\ pc' = [pc EXCEPT ![th] = "panic"]
               /\ UNCHANGED ret
          ELSE /\ stack' = Visit(stack, tree, n, outcome[n]).stack
               /\ ret' = Visit(stack, tree, n, outcome[n]).ret
               /\ UNCHANGED <<pc, panicked>>
    /\ UNCHANGED <<stage, tree, outcome, faulty, queue, running>>
    /\ UNCHANGED others

\* execute(node) has returned: execFn invokes one continuation.
Notify(th) ==
    /\ pc[th] = "execFn"
    /\ stack = <<>>
    /\ LET h == Continuation(ret) IN
       /\ trace' = Append(trace,
                      IF h = "errHandle"
                      THEN Event("error", th, "stage", NilNode, Forwarded(ret))
                      ELSE Event("complete", th, "stage", NilNode, NoErr))
       /\ IF faulty = h
          THEN pc' = [pc EXCEPT ![th] = "panic"] /\ panicked' = Fault(0)
          ELSE pc' = [pc EXCEPT ![th] = "done"] /\ UNCHANGED panicked
    /\ UNCHANGED <<stage, tree, outcome, faulty, queue, running, stack, ret>>
    /\ UNCHANGED others

\* Return gone wrong: Execute recovers a panic of execFn and returns normally.
ReturnAfterRecover ==
    /\ pc[Caller] \in {"done", "submitted", "panic"}
    /\ pc' = [pc EXCEPT ![Caller] = "returned"]
    /\ panicked' = IF pc[Caller] = "panic" THEN NoErr ELSE panicked
    /\ trace' = Append(trace, Event("return", Caller, "stage", NilNode, NoErr))
    /\ UNCHANGED <<stage, tree, outcome, faulty, queue, running, stack, ret>>
    /\ UNCHANGED others

\* Stage.Execute returns to its caller: after execFn, or right after Submit.
Return ==
    /\ pc[Caller] \in {"done", "submitted"}
    /\ pc' = [pc EXCEPT ![Caller] = "returned"]
    /\ trace' = Append(trace, Event("return", Caller, "stage", NilNode, NoErr))
    /\ UNCHANGED <<stage, tree, outcome, faulty, queue, running, stack, ret, panicked>>
    /\ UNCHANGED others

\* ------------------------------------------------------------ pool worker
\* A worker takes the task and starts its action, func() { execFn() }.
WorkerTake ==
    /\ pc[Worker] = "idle"
    /\ queue # <<>>
    /\ running' = Head(queue)
    /\ queue' = Tail(queue)
    /\ pc' = [pc EXCEPT ![Worker] = "execFn"]
    /\ stack' = Enter(Root(tree))
    /\ UNCHANGED <<stage, tree, outcome, faulty, ret, panicked, trace>>
    /\ UNCHANGED others

\* The action panicked: the worker recovers and invokes the task's error handler.
TaskRecover ==
    /\ pc[Worker] = "panic"
    /\ trace' = trace \o (IF running.handle = Nil THEN <<>>
                          ELSE <<Event("error", Worker, "pool", NilNode, panicked)>>)
    /\ panicked' = NoErr
    /\ pc' = [pc EXCEPT ![Worker] = "done"]
    /\ UNCHANGED <<stage, tree, outcome, faulty, queue, running, stack, ret>>
    /\ UNCHANGED others

Next ==
    \/ Execute
    \/ \E th \in Threads : NodeStep(th)
    \/ \E th \in Threads : Notify(th)
    \/ Return
    \/ WorkerTake
    \/ TaskRecover

Spec == Init /\ [][Next]_vars

\* ------------------------------------------------- what the trace records
IsNode(e) == e.ev = "node"
IsComplete(e) == e.ev = "complete"
IsError(e) == e.ev = "error"
IsContinuation(e) == e.ev \in {"complete", "error"}

\* The nodes whose Execute() has been invoked, in order of invocation.
Executed == LET s == SelectSeq(trace, IsNode) IN [i \in 1..Len(s) |-> s[i].node]
\* The invocations of completeHandle, of errHandle, and of either.
Completes == SelectSeq(trace, IsComplete)
Errors == SelectSeq(trace, IsError)
Continuations == SelectSeq(trace, IsContinuation)

\* The depth-first pre-order listing of a tree, read off the parent relation:
\* a node, then the listings of its children from the first declared to the last
\* (a child's number is above its parent's, and siblings are declared in
\* increasing order of their numbers).
RECURSIVE PreOrder(_, _), PreOrderKids(_, _, _)
PreOrder(t, n) == IF n \in t.nil THEN <<>> ELSE <<n>> \o PreOrderKids(t, n, n + 1)
PreOrderKids(t, n, i) ==
    IF i > t.size THEN <<>>
    ELSE (IF t.parent[i] = n THEN PreOrder(t, i) ELSE <<>>) \o PreOrderKids(t, n, i + 1)

Listing == PreOrder(tree, 1)

IsPrefix(a, b) == Len(a) <= Len(b) /\ \A i \in 1..Len(a) : a[i] = b[i]

NoDuplicates(a) == \A i, j \in 1..Len(a) : a[i] = a[j] => i = j

\* The goroutine execFn runs on, and whether it is past execFn.
NoPoolOrNoCtx == stage.execPool = Nil \/ stage.ctx = Nil
Async == stage.execPool # Nil /\ stage.ctx # Nil
Runner == IF NoPoolOrNoCtx THEN Caller ELSE Worker
Notified == pc[Runner] \in {"done", "returned", "panic"}

\* Nothing more will happen for this Execute call.
Finished ==
    /\ pc[Caller] \in {"returned", "panic"}
    /\ queue = <<>>
    /\ pc[Worker] \in {"idle", "done"}

\* The pool turned the task away: Submit was called and no worker ever got the task.
Rejected ==
    /\ \E i \in 1..Len(trace) : trace[i].ev = "submit"
    /\ queue = <<>>
    /\ running = NoTask

\* ------------------------------------------------------------------ claims

\* C1: every Execute call invokes exactly one of completeHandle and errHandle,
\* exactly once: never two invocations, and one by the time the call is over.
C1_ExactlyOneContinuation ==
    /\ Len(Continuations) <= 1
    /\ Finished => Len(Continuations) = 1

\* The first node of the pre-order listing whose Execute() returns an error
\* (NilNode when none does).
RECURSIVE FirstFailingFrom(_, _)
FirstFailingFrom(l, o) ==
    IF l = <<>> THEN NilNode
    ELSE IF o[Head(l)] = "err" THEN Head(l)
    ELSE FirstFailingFrom(Tail(l), o)

PositionIn(l, n) == CHOOSE i \in 1..Len(l) : l[i] = n

\* C2: when a node's Execute fails, that node is the first failing node of the
\* pre-order listing, no node after it in the listing is executed, and the error
\* execFn hands to errHandle is that node's error: it is the first error errHandle
\* receives, and it is delivered by the time execFn is over.
C2_FirstFailureReported ==
    LET ex == Executed
        l == Listing
        f == FirstFailingFrom(l, outcome)
        errs == Errors
    IN  \A i \in 1..Len(ex) :
            outcome[ex[i]] = "err" =>
                /\ ex[i] = f
                /\ i = Len(ex)
                /\ \A j \in 1..Len(ex) : PositionIn(l, ex[j]) <= PositionIn(l, f)
                /\ errs # <<>> => errs[1].err = Err(f)
                /\ Notified => errs # <<>>

\* C2's case: in a tree with a second child, the parent succeeded, the first child
\* failed and its error reached errHandle; the second child was never executed.
C2_Witness ==
    /\ tree.size >= 3
    /\ tree.parent[2] = 1
    /\ tree.parent[3] = 1
    /\ tree.nil = {}
    /\ outcome[1] = "ok" /\ outcome[2] = "err" /\ outcome[3] = "ok"
    /\ Finished
    /\ Executed = <<1, 2>>
    /\ Errors # <<>>
    /\ Errors[1].err = Err(2)

\* What a run that is over must have executed: the listing up to and including
\* its first node that does not return nil.
RECURSIVE UpToFirstFailure(_, _)
UpToFirstFailure(l, o) ==
    IF l = <<>> THEN <<>>
    ELSE IF o[Head(l)] # "ok" THEN <<Head(l)>>
    ELSE <<Head(l)>> \o UpToFirstFailure(Tail(l), o)

\* C3: the nodes executed so far are always a prefix of the pre-order listing, each
\* node at most once; a run that is over stopped at the first node that did not
\* succeed, and when every node succeeds it executed the complete listing.
C3_PreOrderPrefix ==
    LET ex == Executed
        l == Listing
    IN  /\ IsPrefix(ex, l)
        /\ NoDuplicates(ex)
        /\ Notified /\ ~Rejected => ex = UpToFirstFailure(l, outcome)
        /\ Notified /\ ~Rejected /\ (\A n \in Nodes(tree) : outcome[n] = "ok")
               => ex = l

\* C3's case: a tree whose pre-order differs from the order of its node numbers
\* (node 4 is a child of node 2, node 3 the second child of the root) ran to the end.
C3_Witness ==
    /\ tree.size = 4
    /\ tree.parent = <<0, 1, 1, 2>>
    /\ Executed = <<1, 2, 4, 3>>
    /\ Completes # <<>>

\* C4: when every node of the tree has been executed and has succeeded,
\* completeHandle is invoked exactly once and errHandle never.
C4_AllSucceedCompletesOnce ==
    (/\ Finished
     /\ ~Rejected
     /\ Executed = Listing
     /\ \A n \in Nodes(tree) : outcome[n] = "ok")
        => Len(Completes) = 1 /\ Errors = <<>>

\* C5: a stage without a pool or without a context submits nothing and does
\* everything on the calling goroutine; when Execute returns, the traversal has run
\* as far as it goes, then exactly one continuation was invoked, then it returned.
C5_SynchronousContract ==
    NoPoolOrNoCtx =>
        /\ \A i \in 1..Len(trace) : trace[i].th = Caller /\ trace[i].ev # "submit"
        /\ queue = <<>> /\ running = NoTask /\ pc[Worker] = "idle"
        /\ pc[Caller] = "returned" =>
               LET ex == Executed IN
               /\ ex = UpToFirstFailure(Listing, outcome)
               /\ Len(Continuations) = 1
               /\ Len(trace) = Len(ex) + 2
               /\ \A i \in 1..Len(ex) : IsNode(trace[i])
               /\ IsContinuation(trace[Len(trace) - 1])
               /\ trace[Len(trace)].ev = "return"

\* C5's case: a single-node stage that has a pool but no context has returned,
\* after the node's logic and then the continuation ran on the calling goroutine.
C5_Witness ==
    /\ stage.execPool # Nil
    /\ stage.ctx = Nil
    /\ tree.size = 1
    /\ pc[Caller] = "returned"
    /\ Len(trace) = 3
    /\ IsNode(trace[1]) /\ IsComplete(trace[2]) /\ trace[3].ev = "return"

C7_ErrorForwardedVerbatim ==
    LET ex == Executed IN
    /\ \A i \in 1..Len(trace) :
           IsError(trace[i]) /\ trace[i].by = "stage" =>
               /\ ex # <<>>
               /\ outcome[ex[Len(ex)]] = "err"
               /\ trace[i].err = Err(ex[Len(ex)])
    /\ \A k \in 1..Len(ex) :
           outcome[ex[k]] = "err" /\ Notified =>
               /\ \E i \in 1..Len(trace) :
                      /\ IsError(trace[i])
                      /\ trace[i].by = "stage"
                      /\ trace[i].err = Err(ex[k])
               /\ Completes = <<>>

\* C7's case: under asynchronous dispatch a node two levels below the root failed
\* and errHandle received its error.
C7_Witness ==
    /\ Async
    /\ tree.size >= 3
    /\ tree.parent[2] = 1
    /\ tree.parent[3] = 2
    /\ Executed = <<1, 2, 3>>
    /\ outcome[3] = "err"
    /\ Errors # <<>>
    /\ Errors[1] = Event("error", Worker, "stage", NilNode, Err(3))

\* C8: under asynchronous dispatch, when a node's Execute panics the worker does
\* not die silently: completeHandle is never invoked, and once the worker is done
\* with the task errHandle has been invoked, once, with the recovered fault.
C8_FaultReachesErrHandle ==
    Async =>
        LET ex == Executed IN
        \A k \in 1..Len(ex) :
            outcome[ex[k]] = "panic" =>
                /\ Completes = <<>>
                /\ pc[Worker] \in {"panic", "done"}
                /\ pc[Worker] = "done" =>
                       Errors = <<Event("error", Worker, "pool", NilNode, Fault(ex[k]))>>

\* C8's case: a child panicked on the worker and the worker has finished the task.
C8_Witness ==
    /\ Async
    /\ Len(Executed) >= 2
    /\ outcome[Executed[Len(Executed)]] = "panic"
    /\ pc[Worker] = "done"
    /\ Len(Errors) = 1

\* C9: when the pool rejects the submission (possible only for a cancelled context)
\* no node is ever executed, completeHandle is never invoked, and errHandle has been
\* invoked exactly once, with the cancellation error.
C9_RejectionReported ==
    Rejected =>
        /\ stage.ctx = "cancelled"
        /\ Executed = <<>>
        /\ Completes = <<>>
        /\ Errors = <<Event("error", Caller, "pool", NilNode, Cancelled)>>
        /\ pc[Worker] = "idle"

\* C9's case: a stage with a cancelled context and a non-empty tree was executed,
\* the pool rejected the task, and Execute has returned.
C9_Witness ==
    /\ Rejected
    /\ tree.size >= 2
    /\ tree.nil = {}
    /\ pc[Caller] = "returned"

\* The state of the stage as its continuations define it.
StageState ==
    IF pc[Caller] = "created" THEN "Created"
    ELSE IF Continuations = <<>> THEN "Executing"
    ELSE IF IsComplete(Continuations[Len(Continuations)]) THEN "Completed"
    ELSE "Failed"

\* C10: the stage moves Created -> Executing -> {Completed, Failed}; it never goes
\* back, and Completed and Failed are terminal: no step leaves either of them.
C10_StateMachine ==
    [][/\ StageState = "Completed" => StageState' = "Completed"
       /\ StageState = "Failed" => StageState' = "Failed"
       /\ StageState = "Executing" => StageState' # "Created"]_vars

\* C17: a nil node is a success that executes nothing. Execute(nil, ...) executes
\* no node and the continuation execFn invokes is completeHandle; no node call is
\* ever made on a nil entry, and a nil child does not stop the loop it is in: a
\* sibling declared after it is executed once everything before that sibling in
\* the listing has succeeded.
C17_NilIsNoOpSuccess ==
    LET ex == Executed
        l == Listing
    IN  /\ \A i \in 1..Len(ex) : ex[i] # NilNode /\ ex[i] \notin tree.nil
        /\ Root(tree) = NilNode =>
               /\ ex = <<>>
               /\ Notified => Len(Completes) = 1 /\ IsComplete(Continuations[1])
        /\ \A k \in tree.nil, sib \in Nodes(tree) :
               (/\ Notified /\ ~Rejected
                /\ sib > k
                /\ tree.parent[sib] = tree.parent[k]
                /\ \A j \in 1..(PositionIn(l, sib) - 1) : outcome[l[j]] = "ok")
                   => \E i \in 1..Len(ex) : ex[i] = sib

\* C17's case: the root's first child is nil, its second child is a node; the root
\* and the second child were executed and completeHandle was invoked.
C17_Witness ==
    /\ tree.size = 3
    /\ tree.parent = <<0, 1, 1>>
    /\ tree.nil = {2}
    /\ Executed = <<1, 3>>
    /\ Len(Completes) = 1

\* C20: under asynchronous dispatch the continuation call is part of the task's
\* action and errHandle is also the task's error handler. So when completeHandle
\* panics, the finished task has invoked completeHandle and then errHandle with the
\* recovered fault; when errHandle panics on a node's error, the finished task has
\* invoked errHandle twice, with the node's error and then with the fault.
C20_FaultyContinuationNotifiesTwice ==
    Async /\ pc[Worker] = "done" =>
        /\ faulty = "completeHandle" /\ Completes # <<>> =>
               Continuations = <<Event("complete", Worker, "stage", NilNode, NoErr),
                                 Event("error", Worker, "pool", NilNode, Fault(0))>>
        /\ faulty = "errHandle" /\ ret # NoErr =>
               Continuations = <<Event("error", Worker, "stage", NilNode, ret),
                                 Event("error", Worker, "pool", NilNode, Fault(0))>>

\* C20's case: every node of a two-level tree succeeded on the worker, completeHandle
\* panicked, and errHandle was invoked after it.
C20_Witness ==
    /\ Async
    /\ pc[Worker] = "done"
    /\ faulty = "completeHandle"
    /\ Len(Executed) >= 2
    /\ Len(Completes) = 1
    /\ Len(Errors) = 1

\* ----------------------------- the stage's other methods, Execute again
\* Type gone wrong: the tag reported depends on how the stage dispatches.
TypeByDispatch(st) == IF st.execPool = Nil THEN "T0" ELSE st.stageType

\* func (stage *baseStage) Type() Type { return stage.stageType }
Type(st) == st.stageType

\* Complete gone wrong: the hook reports completion itself.
CompleteInvokesHandler(st) ==
    [stage |-> st, calls |-> <<Event("complete", Caller, "stage", NilNode, NoErr)>>]

\* Complete gone wrong: the hook lets go of the pool.
CompleteReleasesPool(st) == [stage |-> [st EXCEPT !.execPool = Nil], calls |-> <<>>]

\* func (stage *baseStage) Complete() {}: the stage afterwards, the calls it made.
Complete(st) == [stage |-> st, calls |-> <<>>]

\* NextStages gone wrong: a stage with a pool names itself as its successor.
NextStagesSelf(st) == IF st.execPool = Nil THEN <<>> ELSE <<st.stageType>>

\* func (stage *baseStage) NextStages() []Stage { return nil }
NextStages(st) == <<>>

Called(op, result) == [op |-> op, result |-> result, seq |-> 1 - lastCall.seq]

\* The three methods can be called at any moment, whatever Execute is doing.
TypeCall ==
    /\ lastCall' = Called("Type", Type(stage))
    /\ UNCHANGED <<execVars, previous, beyondStage>>

CompleteCall ==
    /\ stage' = Complete(stage).stage
    /\ trace' = trace \o Complete(stage).calls
    /\ lastCall' = Called("Complete", Nil)
    /\ UNCHANGED <<tree, outcome, faulty, pc, queue, running, stack, ret, panicked>>
    /\ UNCHANGED <<previous, beyondStage>>

NextStagesCall ==
    /\ lastCall' = Called("NextStages", NextStages(stage))
    /\ UNCHANGED <<execVars, previous, beyondStage>>

\* The continuations the Execute call that is over invoked, by name.
Ended == [i \in 1..Len(SelectSeq(trace, LAMBDA e : e.ev \in {"complete", "error"})) |->
             SelectSeq(trace, LAMBDA e : e.ev \in {"complete", "error"})[i].ev]

\* The Execute call is over (the worker, if any, is done with its task): its
\* arguments, its closure and its task are garbage. Nothing of it is left but the
\* stage's fields.
CallOver ==
    /\ pc[Caller] \in {"returned", "panic"}
    /\ queue = <<>>
    /\ pc[Worker] \in {"idle", "done"}
    /\ previous' = Ended
    /\ tree' = [size |-> 1, parent |-> <<0>>, nil |-> {1}]
    /\ outcome' = <<"ok">>
    /\ faulty' = "none"
    /\ pc' = [th \in Threads |-> IF th = Caller THEN "over" ELSE "idle"]
    /\ queue' = <<>>
    /\ running' = NoTask
    /\ stack' = <<>>
    /\ ret' = NoErr
    /\ panicked' = NoErr
    /\ trace' = <<>>
    /\ UNCHANGED <<stage, lastCall, beyondStage>>

\* Execute is about to be called on the same stage again, with another tree and
\* other continuations.
ExecuteAgain ==
    /\ pc[Caller] = "over"
    /\ tree' \in TreesUpTo(MaxSeqNodes)
    /\ outcome' \in {o \in [1..tree'.size -> Outcomes] : \A i \in tree'.nil : o[i] = "ok"}
    /\ faulty' \in HandlerFaults
    /\ pc' = [pc EXCEPT ![Caller] = "created"]
    /\ UNCHANGED <<stage, queue, running, stack, ret, panicked, trace>>
    /\ UNCHANGED <<methodVars, beyondStage>>

\* A stage of any type, executed any number of times on small trees.
InitStage ==
    /\ stage \in [stageType : StageTypes, ctx : {Nil, "live", "cancelled"}, execPool : {Nil, "pool"}]
    /\ tree \in TreesUpTo(MaxSeqNodes)
    /\ outcome \in {o \in [1..tree.size -> Outcomes] : \A i \in tree.nil : o[i] = "ok"}
    /\ faulty \in HandlerFaults
    /\ Created
    /\ MethodsIdle
    /\ PipelineIdle /\ FlushIdle /\ LimitsIdle

NextStage ==
    \/ Execute
    \/ \E th \in Threads : NodeStep(th)
    \/ \E th \in Threads : Notify(th)
    \/ Return
    \/ WorkerTake
    \/ TaskRecover
    \/ CallOver
    \/ ExecuteAgain
    \/ TypeCall
    \/ CompleteCall
    \/ NextStagesCall

SpecStage == InitStage /\ [][NextStage]_vars

\* C13: a call of the default Complete() changes neither the stage nor anything
\* of the running Execute call and invokes no node and no continuation; a call of
\* the default NextStages() changes nothing either and returns the empty sequence,
\* in every state: before, during and after any number of Execute calls.
C13_CompleteAndNextStagesAreInert ==
    [][lastCall'.seq # lastCall.seq =>
          /\ lastCall'.op \in {"Complete", "NextStages"} => UNCHANGED execVars
          /\ lastCall'.op = "NextStages" => lastCall'.result = <<>>]_vars

\* C13's case: NextStages() returned the empty sequence on a stage whose second
\* Execute call is over, the first having ended with completeHandle.
C13_Witness ==
    /\ lastCall.op = "NextStages"
    /\ lastCall.result = <<>>
    /\ previous = <<"complete">>
    /\ Finished
    /\ Executed # <<>>

\* What one Execute call on a new stage makes of its arguments when the pool takes
\* the task: the nodes executed and the continuations invoked.
OnNewStage(st, t, o, f) ==
    LET run == UpToFirstFailure(PreOrder(t, 1), o)
        last == IF run = <<>> THEN NilNode ELSE run[Len(run)]
        res == IF last = NilNode THEN "ok" ELSE o[last]
        th == IF RunsInline(st) THEN Caller ELSE Worker
        own == IF res = "ok" THEN <<Event("complete", th, "stage", NilNode, NoErr)>>
               ELSE IF res = "err" THEN <<Event("error", th, "stage", NilNode, Err(last))>>
               ELSE <<>>
        fault == IF res = "panic" THEN Fault(last)
                 ELSE IF (res = "ok" /\ f = "completeHandle") \/ (res = "err" /\ f = "errHandle")
                      THEN Fault(0)
                      ELSE NoErr
        pool == IF RunsInline(st) \/ fault = NoErr THEN <<>>
                ELSE <<Event("error", Worker, "pool", NilNode, fault)>>
    IN  [nodes |-> run, continuations |-> own \o pool]

\* C18: no step changes the stage's fields, whichever method it belongs to; Type()
\* always returns the stage's tag; and every Execute call, the first and any later
\* one, whatever the calls before it did, ends with the nodes executed and the
\* continuations invoked that the same arguments give on a new stage.
C18_StageUntouched ==
    /\ [][stage' = stage]_vars
    /\ [](lastCall.op = "Type" => lastCall.result = stage.stageType)
    /\ [](Finished /\ ~Rejected =>
              /\ Executed = OnNewStage(stage, tree, outcome, faulty).nodes
              /\ Continuations = OnNewStage(stage, tree, outcome, faulty).continuations)

\* C18's case: the first Execute call ended with errHandle; the second one, on
\* another tree, executed both of its nodes and ended with completeHandle; Type()
\* was called after it.
C18_Witness ==
    /\ previous = <<"error">>
    /\ Finished
    /\ Len(Executed) = 2
    /\ Len(Completes) = 1
    /\ Errors = <<>>
    /\ lastCall.op = "Type"

\* ------------------------------------------------------- the stage pipeline
\* The driver (spec 4.4) keeps a work list of pending stages; it calls Execute on
\* each with onComplete = { Complete(); enqueue NextStages() } and onError =
\* { abort the pipeline, surface the error }. Its stages are baseStages that share
\* one pool and one live context; a concrete stage overrides NextStages() to name
\* its successors and may override Complete() with a hook that can panic.
StageIds == {1, 2}

RECURSIVE InOrder(_)
InOrder(S) ==
    IF S = {} THEN <<>>
    ELSE LET m == CHOOSE x \in S : \A y \in S : x <= y IN <<m>> \o InOrder(S \ {m})

\* Who follows whom: successors come later, and no stage follows two stages.
Topologies ==
    {nx \in [StageIds -> SUBSET StageIds] :
        /\ \A a \in StageIds : \A b \in nx[a] : b > a
        /\ \A b \in StageIds : Cardinality({a \in StageIds : b \in nx[a]}) <= 1}

PlanTrees == {t \in TreesUpTo(MaxPipeNodes) : t.nil = {}}

\* What the driver and the pool see of the stages.
PEvent(ev, s, by, n, e) == [ev |-> ev, st |-> s, by |-> by, node |-> n, err |-> e]

NotStarted == [pc |-> "pending", stack |-> <<>>, ret |-> NoErr, panicked |-> NoErr]

EntryStages == {b \in StageIds : \A a \in StageIds : b \notin stages[a].next}

InitPipeline ==
    /\ \E nx \in Topologies :
          stages \in {f \in [StageIds -> [stageType : {"T0"}, ctx : {"live"}, execPool : {Nil, "pool"},
                                          next : SUBSET StageIds, plan : PlanTrees,
                                          outcome : UNION {[1..k -> Outcomes] : k \in 1..MaxPipeNodes},
                                          hook : {"none", "panics"}]] :
                         \A a \in StageIds : /\ f[a].next = nx[a]
                                             /\ DOMAIN f[a].outcome = 1..f[a].plan.size}
    /\ exec = [a \in StageIds |-> NotStarted]
    /\ worklist = InOrder(EntryStages)
    /\ tasks = <<>>
    /\ status = [pipeline |-> "running", driver |-> "loop"]
    /\ surfaced = <<>>
    /\ plog = <<>>
    /\ StageIdle /\ FlushIdle /\ LimitsIdle

\* onError gone wrong: every failing stage surfaces its error.
AbortEveryTime(st, e) == [pipeline |-> "failed", surfaced |-> <<e>>]

\* onError = { abort pipeline, surface error to caller }: only the first error of
\* a pipeline is surfaced.
Abort(st, e) ==
    IF st.pipeline = "running"
    THEN [pipeline |-> "failed", surfaced |-> <<e>>]
    ELSE [pipeline |-> st.pipeline, surfaced |-> <<>>]

\* onComplete gone wrong: the successors are enqueued before Complete() is called.
OnCompleteEnqueuesFirst(a) ==
    [calls |-> <<PEvent("complete", a, "stage", NilNode, NoErr),
                 PEvent("Complete", a, "driver", NilNode, NoErr)>>,
     enqueue |-> InOrder(stages[a].next),
     panics |-> stages[a].hook = "panics"]

\* onComplete = { call Complete(); enqueue NextStages() }: the calls it makes, the
\* stages it adds to the work list, and whether Complete() panics before that.
OnComplete(a) ==
    [calls |-> <<PEvent("complete", a, "stage", NilNode, NoErr),
                 PEvent("Complete", a, "driver", NilNode, NoErr)>>,
     enqueue |-> IF stages[a].hook = "panics" THEN <<>> ELSE InOrder(stages[a].next),
     panics |-> stages[a].hook = "panics"]

\* The driver takes the next pending stage and calls its Execute with the root of
\* its plan: execFn runs on the driver's goroutine, or goes to the pool as a task.
Launch ==
    /\ status = [pipeline |-> "running", driver |-> "loop"]
    /\ worklist # <<>>
    /\ LET a == Head(worklist) IN
       /\ worklist' = Tail(worklist)
       /\ plog' = Append(plog, PEvent("Execute", a, "driver", NilNode, NoErr))
       /\ IF RunsInline(stages[a])
          THEN /\ exec' = [exec EXCEPT ![a].pc = "execFn",
                                       ![a].stack = Enter(Root(stages[a].plan))]
               /\ status' = [status EXCEPT !.driver = "busy"]
               /\ UNCHANGED tasks
          ELSE /\ exec' = [exec EXCEPT ![a].pc = "queued"]
               /\ tasks' = Append(tasks, [stage |-> a, task |-> NewTask])
               /\ UNCHANGED status
    /\ UNCHANGED <<stages, surfaced>>
    /\ UNCHANGED <<execVars, methodVars, flushVars, limitVars>>

\* A worker of the pool takes the oldest task and starts its action.
Take ==
    /\ tasks # <<>>
    /\ LET a == Head(tasks).stage IN
       exec' = [exec EXCEPT ![a].pc = "execFn", ![a].stack = Enter(Root(stages[a].plan))]
    /\ tasks' = Tail(tasks)
    /\ UNCHANGED <<stages, worklist, status, surfaced, plog>>
    /\ UNCHANGED <<execVars, methodVars, flushVars, limitVars>>

\* A panic leaves execFn: on the driver's goroutine nothing stops it, on a worker
\* the pool recovers it (PoolRecover).
Panicking(a, st) ==
    IF RunsInline(stages[a]) THEN [st EXCEPT !.driver = "crashed"] ELSE st

\* execute() of stage a reaches its next node and calls its Execute().
StageNode(a) ==
    /\ exec[a].pc = "execFn"
    /\ exec[a].stack # <<>>
    /\ LET n == Pending(exec[a].stack)
           o == stages[a].outcome[n]
       IN  /\ plog' = Append(plog, PEvent("node", a, "stage", n, NoErr))
           /\ IF o = "panic"
              THEN /\ exec' = [exec EXCEPT ![a].pc = "panic", ![a].stack = <<>>,
                                           ![a].panicked = Fault(n)]
                   /\ status' = Panicking(a, status)
              ELSE /\ exec' = [exec EXCEPT
                                 ![a].stack = Visit(exec[a].stack, stages[a].plan, n, o).stack,
                                 ![a].ret = Visit(exec[a].stack, stages[a].plan, n, o).ret]
                   /\ UNCHANGED status
    /\ UNCHANGED <<stages, worklist, tasks, surfaced>>
    /\ UNCHANGED <<execVars, methodVars, flushVars, limitVars>>

\* execute() of stage a has returned: execFn invokes the driver's onError or
\* onComplete; when the stage ran inline, Execute then returns to the driver.
StageNotify(a) ==
    /\ exec[a].pc = "execFn"
    /\ exec[a].stack = <<>>
    /\ IF Continuation(exec[a].ret) = "errHandle"
       THEN LET e == Forwarded(exec[a].ret) IN
            /\ plog' = Append(plog, PEvent("error", a, "stage", NilNode, e))
            /\ status' = [pipeline |-> Abort(status, e).pipeline,
                          driver |-> IF RunsInline(stages[a]) THEN "loop" ELSE status.driver]
            /\ surfaced' = surfaced \o Abort(status, e).surfaced
            /\ exec' = [exec EXCEPT ![a].pc = "done"]
            /\ UNCHANGED worklist
       ELSE /\ plog' = plog \o OnComplete(a).calls
            /\ worklist' = worklist \o OnComplete(a).enqueue
            /\ UNCHANGED surfaced
            /\ IF OnComplete(a).panics
               THEN /\ exec' = [exec EXCEPT ![a].pc = "panic", ![a].panicked = Fault(0)]
                    /\ status' = Panicking(a, status)
               ELSE /\ exec' = [exec EXCEPT ![a].pc = "done"]
                    /\ status' = [status EXCEPT
                                    !.driver = IF RunsInline(stages[a]) THEN "loop" ELSE @]
    /\ UNCHANGED <<stages, tasks>>
    /\ UNCHANGED <<execVars, methodVars, flushVars, limitVars>>

\* The action of stage a's task panicked: the worker recovers and invokes the
\* task's error handler, which is the driver's onError.
PoolRecover(a) ==
    /\ exec[a].pc = "panic"
    /\ ~RunsInline(stages[a])
    /\ exec' = [exec EXCEPT ![a].pc = "done", ![a].panicked = NoErr]
    /\ IF NewTask.handle = Nil
       THEN UNCHANGED <<plog, status, surfaced>>
       ELSE /\ plog' = Append(plog, PEvent("error", a, "pool", NilNode, exec[a].panicked))
            /\ status' = [status EXCEPT !.pipeline = Abort(status, exec[a].panicked).pipeline]
            /\ surfaced' = surfaced \o Abort(status, exec[a].panicked).surfaced
    /\ UNCHANGED <<stages, worklist, tasks>>
    /\ UNCHANGED <<execVars, methodVars, flushVars, limitVars>>

InFlight == {a \in StageIds : exec[a].pc \in {"queued", "execFn", "panic"}}

\* Nothing is pending and nothing is in flight: the pipeline has succeeded.
Succeed ==
    /\ status = [pipeline |-> "running", driver |-> "loop"]
    /\ worklist = <<>>
    /\ InFlight = {}
    /\ status' = [status EXCEPT !.pipeline = "succeeded"]
    /\ UNCHANGED <<stages, exec, worklist, tasks, surfaced, plog>>
    /\ UNCHANGED <<execVars, methodVars, flushVars, limitVars>>

NextPipeline ==
    \/ Launch
    \/ Take
    \/ \E a \in StageIds : StageNode(a)
    \/ \E a \in StageIds : StageNotify(a)
    \/ \E a \in StageIds : PoolRecover(a)
    \/ Succeed

SpecPipeline == InitPipeline /\ [][NextPipeline]_vars

\* ------------------------------------------- what the pipeline's log records
\* The positions in the log of stage a's events of one kind.
Where(ev, a) == {i \in 1..Len(plog) : plog[i].ev = ev /\ plog[i].st = a}
\* The positions of all invocations of onError.
Failures == {i \in 1..Len(plog) : plog[i].ev = "error"}
\* The nodes stage a has executed, in order.
ExecutedBy(a) ==
    LET l == SelectSeq(plog, LAMBDA e : e.ev = "node" /\ e.st = a)
    IN  [i \in 1..Len(l) |-> l[i].node]
\* Stage a ended with onComplete alone.
Completed(a) == exec[a].pc = "done" /\ Where("complete", a) # {} /\ Where("error", a) = {}

\* C11: for every stage b that follows a stage a, Execute of b is invoked at most
\* once, and only after a's onComplete has fired and a's Complete() has been
\* called; once a has ended with onComplete alone, b is pending or has been
\* executed, and in a pipeline that has succeeded it has been executed exactly
\* once; if onError has fired for a, Execute of b is never invoked.
C11_SuccessorAfterComplete ==
    \A a \in StageIds : \A b \in stages[a].next :
        LET ex == Where("Execute", b) IN
        /\ Cardinality(ex) <= 1
        /\ \A i \in ex : \E j \in Where("complete", a), k \in Where("Complete", a) :
               j < k /\ k < i
        /\ Where("error", a) # {} => ex = {} /\ \A i \in 1..Len(worklist) : worklist[i] # b
        /\ Completed(a) => ex # {} \/ \E i \in 1..Len(worklist) : worklist[i] = b
        /\ status.pipeline = "succeeded" => Cardinality(ex) = 1

\* C11's case: stage 2 follows stage 1, stage 1 ran on a worker and completed, and
\* stage 2 has been executed and has completed too.
C11_Witness ==
    /\ stages[1].next = {2}
    /\ ~RunsInline(stages[1])
    /\ Completed(1)
    /\ Cardinality(Where("Execute", 2)) = 1
    /\ Completed(2)
    /\ status.pipeline = "succeeded"

\* C12: as soon as onError has fired for any stage the pipeline has failed, and it
\* stays failed, whatever is still in flight; the caller has been handed exactly
\* one error, the one the first onError got, however many stages fail; and no
\* stage is launched after that. The pipeline succeeds only when nothing is
\* pending or in flight, no onError has fired, every stage that was launched ended
\* with onComplete, and one of them has no successor.
C12_FailsOnceSucceedsLast ==
    LET fs == Failures IN
    /\ Len(surfaced) <= 1
    /\ fs = {} => surfaced = <<>> /\ status.pipeline # "failed"
    /\ fs # {} =>
          LET first == CHOOSE i \in fs : \A j \in fs : i <= j IN
          /\ status.pipeline = "failed"
          /\ surfaced = <<plog[first].err>>
          /\ \A i \in 1..Len(plog) : plog[i].ev = "Execute" => i < first
    /\ status.pipeline = "succeeded" =>
          /\ fs = {}
          /\ worklist = <<>>
          /\ InFlight = {}
          /\ \A a \in StageIds : Where("Execute", a) # {} => Completed(a)
          /\ \E a \in StageIds : stages[a].next = {} /\ Completed(a)

\* C12's case: two stages without successors run on workers of the shared pool and
\* both end with onError; the pipeline has failed and surfaced one error.
C12_Witness ==
    /\ \A a \in StageIds : stages[a].next = {} /\ ~RunsInline(stages[a])
    /\ \A a \in StageIds : Where("error", a) # {}
    /\ status.pipeline = "failed"
    /\ Len(surfaced) = 1

\* Every stage of the pipeline runs on the shared pool and is an entry stage.
AllConcurrent == \A a \in StageIds : ~RunsInline(stages[a]) /\ a \in EntryStages

\* C19: when the stages all run on the shared pool, each stage invokes at most one
\* continuation, and exactly one by the time its task is over; its nodes are
\* executed in pre-order, up to its first node that does not succeed.
C19_SharedPoolOneContinuationEach ==
    AllConcurrent =>
        \A a \in StageIds :
            LET n == Cardinality(Where("complete", a)) + Cardinality(Where("error", a))
                l == PreOrder(stages[a].plan, 1)
            IN  /\ n <= 1
                /\ exec[a].pc = "done" => n = 1
                /\ IsPrefix(ExecutedBy(a), l)
                /\ exec[a].pc = "done" =>
                       ExecutedBy(a) = UpToFirstFailure(l, stages[a].outcome)

\* ------------------------------------------ the index database's flush
\* indexDatabase.Notify(&FlushEvent{Callback}) as TestIndexDatabase_Flush drives
\* it: PrepareFlush() and Flush() are called on the underlying index, and the
\* callback is handed what Flush() returned. The index database itself is not
\* among the sources; the events are handled independently of one another.
FlushEvents == 1..MaxFlushEvents

FlushFailed == [kind |-> "flush", src |-> 0]

NotNotified ==
    [pc |-> "idle", prepares |-> 0, flushes |-> 0, result |-> NoErr, got |-> <<>>]

InitFlush ==
    /\ flush = [e \in FlushEvents |-> NotNotified]
    /\ StageIdle /\ PipelineIdle /\ LimitsIdle

\* Reported gone wrong: the callback is told nil whatever Flush() returned.
ReportedNil(result) == NoErr

\* What the callback is invoked with: the result of Flush().
Reported(result) == result

FlushFrame == UNCHANGED <<execVars, methodVars, pipeVars, limitVars>>

\* idx.Notify(&FlushEvent{Callback: ...})
NotifyFlush(e) ==
    /\ flush[e].pc = "idle"
    /\ flush' = [flush EXCEPT ![e].pc = "notified"]
    /\ FlushFrame

\* indexDB.PrepareFlush()
PrepareFlush(e) ==
    /\ flush[e].pc = "notified"
    /\ flush' = [flush EXCEPT ![e].pc = "prepared", ![e].prepares = @ + 1]
    /\ FlushFrame

\* indexDB.Flush(), which returns nil or an error.
Flush(e) ==
    /\ flush[e].pc = "prepared"
    /\ \E r \in {NoErr, FlushFailed} :
          flush' = [flush EXCEPT ![e].pc = "flushed", ![e].flushes = @ + 1, ![e].result = r]
    /\ FlushFrame

\* event.Callback(err): the test's callback sends err to the channel it reads.
Callback(e) ==
    /\ flush[e].pc = "flushed"
    /\ flush' = [flush EXCEPT ![e].pc = "called",
                              ![e].got = Append(@, Reported(flush[e].result))]
    /\ FlushFrame

NextFlush ==
    \/ \E e \in FlushEvents : NotifyFlush(e)
    \/ \E e \in FlushEvents : PrepareFlush(e)
    \/ \E e \in FlushEvents : Flush(e)
    \/ \E e \in FlushEvents : Callback(e)

SpecFlush == InitFlush /\ [][NextFlush]_vars

\* Once notified, the index database goes on: each of its steps returns and the
\* goroutine that handles the event keeps being scheduled.
SpecFlushFair ==
    /\ SpecFlush
    /\ \A e \in FlushEvents :
          WF_vars(PrepareFlush(e)) /\ WF_vars(Flush(e)) /\ WF_vars(Callback(e))

\* C14: the callback of a flush event is invoked at most once, only after
\* PrepareFlush and Flush have each been called once for it, and with what Flush
\* returned; and every flush event the index database was notified of has its
\* callback invoked eventually.
C14_FlushCallbackOnce ==
    /\ [](\A e \in FlushEvents :
             /\ Len(flush[e].got) <= 1
             /\ flush[e].prepares <= 1 /\ flush[e].flushes <= 1
             /\ Len(flush[e].got) = 1 =>
                   /\ flush[e].prepares = 1
                   /\ flush[e].flushes = 1
                   /\ flush[e].got[1] = flush[e].result)
    /\ \A e \in FlushEvents : (flush[e].pc # "idle") ~> (Len(flush[e].got) = 1)

\* C14's case: one event's callback got nil after a flush that succeeded, another
\* event's callback got the error of a flush that failed.
C14_Witness ==
    \E e, f \in FlushEvents :
        /\ flush[e].got = <<NoErr>> /\ flush[e].flushes = 1 /\ flush[e].prepares = 1
        /\ flush[f].got = <<FlushFailed>> /\ flush[f].flushes = 1

\* ------------------------------------------------------------ models.Limits
\* Limits.GetSeriesLimit as TestLimits_GetSeriesLimits exercises it (Limits itself
\* is not among the sources). A string is the sequence of its pieces, so that
\* "ns|name" can be put together from "ns", "|" and "name".
DefaultNamespace == <<"default-ns">>
Namespaces == {DefaultNamespace, <<"ns">>}
MetricNames == {<<"name">>, <<"test">>, <<"ns", "|", "name">>}

\* The key of a metric in Limits.Metrics.
MetricKey(namespace, name) ==
    IF namespace = DefaultNamespace THEN name ELSE namespace \o <<"|">> \o name

MetricKeys == {MetricKey(ns, n) : ns \in Namespaces, n \in MetricNames}

\* GetSeriesLimit gone wrong: the namespace is never part of the key.
GetSeriesLimitBareKey(l, namespace, name) ==
    IF name \in DOMAIN l.Metrics THEN l.Metrics[name] ELSE l.MaxSeriesPerMetric

GetSeriesLimit(l, namespace, name) ==
    LET key == MetricKey(namespace, name) IN
    IF key \in DOMAIN l.Metrics THEN l.Metrics[key] ELSE l.MaxSeriesPerMetric

InitLimits ==
    /\ limits \in [MaxSeriesPerMetric : 1..MaxLimit,
                   Metrics : UNION {[D -> 1..MaxLimit] : D \in SUBSET MetricKeys}]
    /\ lookup = NoLookup
    /\ StageIdle /\ PipelineIdle /\ FlushIdle

\* l.GetSeriesLimit(namespace, name)
Lookup ==
    /\ \E ns \in Namespaces, n \in MetricNames :
          lookup' = [namespace |-> ns, name |-> n, result |-> GetSeriesLimit(limits, ns, n)]
    /\ UNCHANGED <<limits, execVars, methodVars, pipeVars, flushVars>>

NextLimits == Lookup

SpecLimits == InitLimits /\ [][NextLimits]_vars

\* C15: GetSeriesLimit(namespace, name) returns the entry of Metrics under
\* namespace + "|" + name when the namespace is not the default one and that
\* entry exists, the entry under name alone when the namespace is the default one
\* and that entry exists, and MaxSeriesPerMetric when the entry does not exist.
C15_SeriesLimitByKey ==
    lookup # NoLookup =>
        LET m == limits.Metrics
            joined == lookup.namespace \o <<"|">> \o lookup.name
        IN  /\ lookup.namespace # DefaultNamespace /\ joined \in DOMAIN m =>
                   lookup.result = m[joined]
            /\ lookup.namespace = DefaultNamespace /\ lookup.name \in DOMAIN m =>
                   lookup.result = m[lookup.name]
            /\ lookup.namespace # DefaultNamespace /\ joined \notin DOMAIN m =>
                   lookup.result = limits.MaxSeriesPerMetric
            /\ lookup.namespace = DefaultNamespace /\ lookup.name \notin DOMAIN m =>
                   lookup.result = limits.MaxSeriesPerMetric

\* C15's case: Metrics holds a limit for "ns|name" and another one for "name";
\* GetSeriesLimit("ns", "name") returned the first, which is not MaxSeriesPerMetric.
C15_Witness ==
    /\ <<"ns", "|", "name">> \in DOMAIN limits.Metrics
    /\ <<"name">> \in DOMAIN limits.Metrics
    /\ limits.Metrics[<<"ns", "|", "name">>] # limits.Metrics[<<"name">>]
    /\ limits.Metrics[<<"ns", "|", "name">>] # limits.MaxSeriesPerMetric
    /\ lookup.namespace = <<"ns">>
    /\ lookup.name = <<"name">>
    /\ lookup.result = limits.Metrics[<<"ns", "|", "name">>]

\* ------------------------------------------- faults and tasks of one Execute
\* C21: in a stage without a pool or without a context, when a node's Execute
\* panics nothing intercepts the panic: neither completeHandle nor errHandle is
\* invoked, then or later, no further node is executed, and Execute never returns:
\* the panic, with the node's fault, is unwinding the calling goroutine.
C21_SyncFaultPropagates ==
    NoPoolOrNoCtx =>
        LET ex == Executed IN
        \A k \in 1..Len(ex) :
            outcome[ex[k]] = "panic" =>
                /\ k = Len(ex)
                /\ Continuations = <<>>
                /\ pc[Caller] = "panic"
                /\ panicked = Fault(ex[k])
                /\ \A i \in 1..Len(trace) : trace[i].ev # "return"
                /\ ~ENABLED Return

\* C21's case: a stage with a pool but no context executed the root, whose child
\* then panicked on the calling goroutine.
C21_Witness ==
    /\ stage.execPool # Nil
    /\ stage.ctx = Nil
    /\ Len(Executed) = 2
    /\ outcome[Executed[2]] = "panic"
    /\ pc[Caller] = "panic"
    /\ Continuations = <<>>

\* The calls of Pool.Submit made so far.
Submits == SelectSeq(trace, LAMBDA e : e.ev = "submit")

\* C22: a stage with a pool and a context makes exactly one Submit call per
\* Execute call, so the pool never holds more than one task of the call, queued or
\* running; every node and every continuation execFn invokes runs on the worker,
\* after the Submit call and while the worker is inside that task's action; the
\* traversal is in progress on at most one goroutine, one node at a time, and
\* makes no more node calls than the tree has nodes.
C22_OneTaskPerExecute ==
    Async =>
        LET ex == Executed IN
        /\ Len(Submits) <= 1
        /\ pc[Caller] # "created" => Len(Submits) = 1
        /\ Len(queue) + (IF running = NoTask THEN 0 ELSE 1) <= 1
        /\ Cardinality({th \in Threads : pc[th] = "execFn"}) <= 1
        /\ stack # <<>> => pc[Worker] = "execFn"
        /\ pc[Worker] # "idle" => running = NewTask /\ queue = <<>>
        /\ trace # <<>> => trace[1].ev = "submit"
        /\ \A i \in 1..Len(trace) :
               IsNode(trace[i]) \/ (trace[i].by = "stage" /\ IsContinuation(trace[i])) =>
                   trace[i].th = Worker
        /\ Len(ex) <= Cardinality(Nodes(tree))

\* C22's case: the one task of the call has run a tree of three nodes and the
\* continuation on the worker, after a single Submit.
C22_Witness ==
    /\ Async
    /\ Len(Submits) = 1
    /\ Len(Executed) = 3
    /\ pc[Worker] = "done"
    /\ Len(Continuations) = 1
    /\ running = NewTask
    /\ queue = <<>>

====
